---- MODULE Spec2Model ----
(***************************************************************************)
(* Knowledge base of the social agent: the chunker (chunking.py), the      *)
(* SQLite store (rag_database.py) and the ingest orchestrator              *)
(* (knowledge_base.py), with a reader (get_chunks_by_page_id) that may run *)
(* between any two store calls of the orchestrator (Spec); the chunker on  *)
(* its own, an iteration at a time (ChunkSpec); and one hybrid_search call *)
(* of the retriever (rag_retriever.py) on a store at rest (SearchSpec).    *)
(*                                                                         *)
(* Text is a sequence of one-character strings.  Python positions are      *)
(* 0-based; At(s, i) is s[i] and Slice(s, a, b) is s[a:b].                 *)
(***************************************************************************)
EXTENDS Integers, Sequences, FiniteSets, TLC

VARIABLES notion, db, kb, hist, ev, obs, ck, rq, ps, cc, wf

vars == <<notion, db, kb, hist, ev, obs, ck, rq, ps, cc, wf>>

(***************************************************************************)
(* Bounds of the model.                                                    *)
(***************************************************************************)
\* AUTOINCREMENT ids handed out in one behaviour.
MaxId == 3

\* chunk_documents is called with its defaults chunk_size=512 and
\* chunk_overlap=50 (chunking.py:16-17), and sync_notion_to_database with
\* batch_size = 32 (knowledge_base.py:57).  The documents of the model are a
\* few characters long, so the three are scaled down to keep several chunks
\* per document and several batches per sync.
chunk_size == 3
chunk_overlap == 1
batch_size == 2

\* The backward searches of the chunker (chunking.py:52 and :59).
SentenceLookback == 100
WordLookback == 50

Pages == <<"p1", "p2">>

PageIds == {Pages[k] : k \in 1..Len(Pages)}

\* Page contents handed to add_document: whitespace only (no chunk), one
\* chunk, and a text cut at its sentence end into several chunks.
Docs ==
  { <<" ", " ">>,
    <<"a", "b">>,
    <<"a", ".", "b", "c">> }

\* What the Notion pages hold, fixed for a behaviour: two pages whose chunks
\* fill more than one batch, or one blank page beside a page with text, or
\* two pages of one chunk each, which share a batch.
Sources ==
  { [p \in PageIds |-> IF p = "p1" THEN <<"a", "b">> ELSE <<"a", "b", "c", "d">>],
    [p \in PageIds |-> IF p = "p1" THEN <<" ", " ">> ELSE <<"a", "b">>],
    [p \in PageIds |-> IF p = "p1" THEN <<"a", "b">> ELSE <<"b", "a">>] }

(***************************************************************************)
(* Python helpers.                                                         *)
(***************************************************************************)
Max(a, b) == IF a >= b THEN a ELSE b

Min(a, b) == IF a <= b THEN a ELSE b

At(s, i) == s[i + 1]

Slice(s, a, b) == SubSeq(s, a + 1, Min(b, Len(s)))

Whitespace == {" ", "\t", "\n", "\r"}

RECURSIVE lstrip(_)
lstrip(s) ==
  IF s # <<>> /\ Head(s) \in Whitespace THEN lstrip(Tail(s)) ELSE s

RECURSIVE rstrip(_)
rstrip(s) ==
  IF s # <<>> /\ s[Len(s)] \in Whitespace
  THEN rstrip(SubSeq(s, 1, Len(s) - 1))
  ELSE s

\* A strip that removes nothing.
strip_nothing(s) == s

\* str.strip()
strip(s) == rstrip(lstrip(s))

SetMax(S) == CHOOSE x \in S : \A y \in S : y <= x

(***************************************************************************)
(* chunking.py                                                             *)
(***************************************************************************)
\* The end of the slice that starts at start (chunking.py:47-62).
chunk_end(doc, start, size) ==
  LET end0 == start + size
  IN  IF end0 < Len(doc)
      THEN LET search_start == Max(start + size - SentenceLookback, start)
               sent == {i \in (search_start + 1)..(end0 - 1) :
                          At(doc, i) \in {".", "!", "?", "\n"}}
               end1 == IF sent # {} THEN SetMax(sent) + 1 ELSE end0
               word == {i \in (Max(start, end1 - WordLookback) + 1)..(end1 - 1) :
                          At(doc, i) \in {" ", "\t", "\n"}}
           IN  IF end1 = start + size
               THEN IF word # {} THEN SetMax(word) + 1 ELSE end1
               ELSE end1
      ELSE end0

\* A cursor that always goes back by the overlap, without the floor start + 1.
next_start_no_floor(start, end, overlap) == end - overlap

\* A cursor that skips the overlap instead of going back by it.
next_start_gap(start, end, overlap) == Max(start + 1, end + overlap)

\* The cursor after the slice start..end (chunking.py:74 and :124).
next_start(start, end, overlap) == Max(start + 1, end - overlap)

\* The while loop of chunk_documents (chunking.py:45-74); chunks is the list
\* built so far, and chunk_index is its length.
RECURSIVE chunk_loop(_, _, _, _, _, _)
chunk_loop(doc, page_id, size, overlap, start, chunks) ==
  IF start < Len(doc)
  THEN LET end == chunk_end(doc, start, size)
           chunk_content == strip(Slice(doc, start, end))
           next == IF chunk_content # <<>>
                   THEN Append(chunks, [content |-> chunk_content,
                                        notion_page_id |-> page_id,
                                        chunk_index |-> Len(chunks)])
                   ELSE chunks
       IN  chunk_loop(doc, page_id, size, overlap,
                      next_start(start, end, overlap), next)
  ELSE chunks

\* chunk_documents(docs, page_ids): docs is the list of [page_id, content].
RECURSIVE chunk_documents(_, _, _)
chunk_documents(docs, size, overlap) ==
  IF docs = <<>>
  THEN <<>>
  ELSE LET d == Head(docs)
           own == IF strip(d.content) = <<>>
                  THEN <<>>
                  ELSE chunk_loop(d.content, d.page_id, size, overlap, 0, <<>>)
       IN  own \o chunk_documents(Tail(docs), size, overlap)

\* chunk_text(text): the same loop (chunking.py:103-124) over one text, the
\* chunks as strings.
chunk_text(text, size, overlap) ==
  IF strip(text) = <<>>
  THEN <<>>
  ELSE LET chunks == chunk_loop(text, "", size, overlap, 0, <<>>)
       IN  [n \in 1..Len(chunks) |-> chunks[n].content]

(***************************************************************************)
(* embeddings.py                                                           *)
(***************************************************************************)
\* The vector the model (SentenceTransformer.encode) gives one text: a
\* deterministic function of the text, kept uninterpreted.
Embed(text) == [vec |-> text]

\* generate_embeddings(texts): one vector per text, in order.
\* generate_embeddings with the rows of its result in reverse order.
generate_embeddings_reversed(texts) ==
  [n \in 1..Len(texts) |-> Embed(texts[Len(texts) + 1 - n])]

generate_embeddings(texts) == [n \in 1..Len(texts) |-> Embed(texts[n])]

\* pickle.dumps
serialize_embedding(embedding) == [pickle |-> embedding]

(***************************************************************************)
(* rag_database.py.  A database value d holds the committed tables and the *)
(* AUTOINCREMENT counter of chunks (sqlite_sequence).  Every function      *)
(* opens its own connection, runs its statements in one implicit           *)
(* transaction and commits at the end; a statement that raises leaves the  *)
(* function before conn.commit(), and the connection is dropped with its   *)
(* transaction rolled back.  failAt = 0: no statement raises; failAt = n:  *)
(* the n-th statement raises.                                              *)
(***************************************************************************)
EmptyDb ==
  [chunks |-> {}, chunks_fts |-> {}, chunk_embeddings |-> {}, seq |-> 0,
   posts |-> {}, post_embeddings |-> {}, post_seq |-> 0]

\* A connection in autocommit mode: every statement run so far is kept.
Transaction_autocommit(d, working, committed) == working

\* What a connection leaves in the database file: the working copy when
\* conn.commit() was reached, the state before the call otherwise.
Transaction(d, working, committed) == IF committed THEN working ELSE d

ChunkIds(d) == {r.id : r \in d.chunks}

FtsIds(d) == {r.rowid : r \in d.chunks_fts}

EmbeddingIds(d) == {r.chunk_id : r \in d.chunk_embeddings}

PageChunkIds(d, notion_page_id) ==
  {r.id : r \in {x \in d.chunks : x.notion_page_id = notion_page_id}}

\* store_chunk: INSERT INTO chunks, INSERT INTO chunks_fts, commit.
store_chunk(d, content, notion_page_id, chunk_index, failAt) ==
  LET chunk_id == d.seq + 1
      w1 == IF failAt = 1
            THEN d
            ELSE [d EXCEPT !.chunks = @ \cup {[id |-> chunk_id,
                                               content |-> content,
                                               notion_page_id |-> notion_page_id,
                                               chunk_index |-> chunk_index]},
                           !.seq = chunk_id]
      w2 == IF failAt \in {1, 2}
            THEN w1
            ELSE [w1 EXCEPT !.chunks_fts =
                    @ \cup {[rowid |-> chunk_id, content |-> content]}]
  IN  [db |-> Transaction(d, w2, failAt = 0),
       ok |-> failAt = 0,
       chunk_id |-> IF failAt = 0 THEN chunk_id ELSE 0]

\* store_chunk_embedding: INSERT OR REPLACE INTO chunk_embeddings, commit.
store_chunk_embedding(d, chunk_id, embedding, failAt) ==
  LET w1 == IF failAt = 1
            THEN d
            ELSE [d EXCEPT !.chunk_embeddings =
                    {r \in @ : r.chunk_id # chunk_id}
                      \cup {[chunk_id |-> chunk_id, embedding |-> embedding]}]
  IN  [db |-> Transaction(d, w1, failAt = 0), ok |-> failAt = 0]

\* store_post: INSERT OR REPLACE INTO posts (content, mastodon_id, metadata),
\* commit.  mastodon_id is UNIQUE: the row that holds it already is deleted
\* and the new row gets the next AUTOINCREMENT id, which is returned.
store_post(d, content, mastodon_id, failAt) ==
  LET post_id == d.post_seq + 1
      w1 == IF failAt = 1
            THEN d
            ELSE [d EXCEPT !.posts =
                    {r \in @ : r.mastodon_id # mastodon_id}
                      \cup {[id |-> post_id, content |-> content,
                              mastodon_id |-> mastodon_id]},
                           !.post_seq = post_id]
  IN  [db |-> Transaction(d, w1, failAt = 0),
       ok |-> failAt = 0,
       post_id |-> IF failAt = 0 THEN post_id ELSE 0]

\* store_post_embedding: INSERT OR REPLACE INTO post_embeddings, commit.
store_post_embedding(d, post_id, embedding, failAt) ==
  LET w1 == IF failAt = 1
            THEN d
            ELSE [d EXCEPT !.post_embeddings =
                    {r \in @ : r.post_id # post_id}
                      \cup {[post_id |-> post_id, embedding |-> embedding]}]
  IN  [db |-> Transaction(d, w1, failAt = 0), ok |-> failAt = 0]

\* delete_chunks_by_page_id without its DELETE FROM chunk_embeddings.
delete_chunks_keeps_embeddings(d, notion_page_id, failAt) ==
  LET chunk_ids == PageChunkIds(d, notion_page_id)
      w1 == IF failAt = 1
            THEN d
            ELSE [d EXCEPT !.chunks_fts = {r \in @ : r.rowid \notin chunk_ids}]
      w3 == IF failAt \in {1, 2, 3}
            THEN w1
            ELSE [w1 EXCEPT !.chunks =
                    {r \in @ : r.notion_page_id # notion_page_id}]
  IN  [db |-> Transaction(d, w3, failAt = 0), ok |-> failAt = 0]

\* A delete_chunks_by_page_id that deletes the rows of every page.
delete_chunks_of_all_pages(d, notion_page_id, failAt) ==
  LET w == [d EXCEPT !.chunks_fts = {}, !.chunk_embeddings = {}, !.chunks = {}]
  IN  [db |-> Transaction(d, w, failAt = 0), ok |-> failAt = 0]

\* delete_chunks_by_page_id: SELECT the ids, DELETE the chunks_fts rows,
\* DELETE the chunk_embeddings rows, DELETE the chunks rows, commit.
delete_chunks_by_page_id(d, notion_page_id, failAt) ==
  LET chunk_ids == PageChunkIds(d, notion_page_id)
      w1 == IF failAt = 1
            THEN d
            ELSE [d EXCEPT !.chunks_fts = {r \in @ : r.rowid \notin chunk_ids}]
      w2 == IF failAt \in {1, 2}
            THEN w1
            ELSE [w1 EXCEPT !.chunk_embeddings =
                    {r \in @ : r.chunk_id \notin chunk_ids}]
      w3 == IF failAt \in {1, 2, 3}
            THEN w2
            ELSE [w2 EXCEPT !.chunks =
                    {r \in @ : r.notion_page_id # notion_page_id}]
  IN  [db |-> Transaction(d, w3, failAt = 0), ok |-> failAt = 0]

\* ORDER BY chunk_index; rows with equal chunk_index come in id order.
RECURSIVE OrderByChunkIndex(_)
OrderByChunkIndex(rows) ==
  IF rows = {}
  THEN <<>>
  ELSE LET first == CHOOSE r \in rows :
                      \A x \in rows :
                        \/ r.chunk_index < x.chunk_index
                        \/ r.chunk_index = x.chunk_index /\ r.id <= x.id
       IN  <<first>> \o OrderByChunkIndex(rows \ {first})

get_chunks_by_page_id(d, notion_page_id) ==
  OrderByChunkIndex({r \in d.chunks : r.notion_page_id = notion_page_id})

(***************************************************************************)
(* notion_client.py                                                        *)
(***************************************************************************)
\* fetch_all_docs_structured: the pages of NOTION_PAGE_IDS in order; a page
\* whose fetch raises is skipped with a warning.
RECURSIVE fetch_all_docs_structured(_, _, _)
\* A fetch that turns a page whose fetch raised into an empty document.
fetch_all_docs_blank_on_error(source, page_ids, failed) ==
  [n \in 1..Len(page_ids) |->
     [page_id |-> page_ids[n],
      content |-> IF page_ids[n] \in failed THEN <<>> ELSE source[page_ids[n]]]]

fetch_all_docs_structured(source, page_ids, failed) ==
  IF page_ids = <<>>
  THEN <<>>
  ELSE LET page_id == Head(page_ids)
           rest == fetch_all_docs_structured(source, Tail(page_ids), failed)
       IN  IF page_id \in failed
           THEN rest
           ELSE <<[page_id |-> page_id, content |-> source[page_id]]>> \o rest

(***************************************************************************)
(* knowledge_base.py.  kb is the orchestrator: the function it is in (op), *)
(* the place in it (pc), its locals, and how its last call ended (ret).    *)
(* init_database() only issues CREATE ... IF NOT EXISTS and is left out.   *)
(***************************************************************************)
IdleKb(ret) ==
  [op |-> "idle", pc |-> "idle", page_ids |-> <<>>, k |-> 0, docs |-> <<>>,
   chunks |-> <<>>, embeddings |-> <<>>, i |-> 0, j |-> 0, chunk_id |-> 0,
   ret |-> ret]

NoEv == [op |-> "none", ok |-> TRUE, failAt |-> 0, page |-> "", had |-> {}]

NoObs == [page |-> "", during |-> FALSE, rows |-> <<>>, old |-> <<>>, new |-> <<>>]

\* No chunker run and no search is in progress.
NoCk == [pc |-> "none"]

NoRq == [pc |-> "none"]

\* No post is being stored, no two writers run side by side, and no run of
\* main is in progress.
NoPs == [pc |-> "none"]

NoCc == [pc |-> "none"]

NoWf == [pc |-> "none"]

Tables(d) ==
  [chunks |-> d.chunks, chunks_fts |-> d.chunks_fts,
   chunk_embeddings |-> d.chunk_embeddings]

Contents(rows) == [n \in 1..Len(rows) |-> rows[n].content]

PageIdsOf(docs) == [n \in 1..Len(docs) |-> docs[n].page_id]

\* History of the call in progress (or of the last call): what it was asked,
\* the tables when it began, the ids its store_chunk calls returned, the
\* first chunk of the batch whose embedding failed (-1: none), and whether
\* it is a rerun: a sync of the same documents right after a sync of them
\* that returned; failed are the pages whose fetch raised.
NewHist(op, force, docs, d, rerun, failed) ==
  [op |-> op, force |-> force, docs |-> docs, before |-> Tables(d),
   stored |-> <<>>, embed_failed_at |-> -1, rerun |-> rerun,
   failed |-> failed]

\* A raise leaves the orchestrator; nothing in knowledge_base.py catches it.
Raise(k) == IdleKb("raised")

Return(k) == IdleKb("ok")

\* The end (exclusive) of the batch that starts at k.i: add_document embeds
\* and stores all its chunks in one go, the sync batch_size at a time.
BatchEnd(k) ==
  IF k.op = "add_document"
  THEN Len(k.chunks)
  ELSE Min(k.i + batch_size, Len(k.chunks))

Init ==
  /\ notion \in Sources
  /\ db = EmptyDb
  /\ kb = IdleKb("none")
  /\ hist = NewHist("none", FALSE, <<>>, EmptyDb, FALSE, {})
  /\ ev = NoEv
  /\ obs = NoObs
  /\ ck = NoCk
  /\ rq = NoRq
  /\ ps = NoPs
  /\ cc = NoCc
  /\ wf = NoWf

\* add_document without its delete_chunks_by_page_id(page_id).
add_document_call_keeps_old(page_id, content) ==
  LET docs == <<[page_id |-> page_id, content |-> content]>>
      chunks == chunk_documents(docs, chunk_size, chunk_overlap)
  IN  /\ kb.op = "idle"
      /\ db.seq + Len(chunks) <= MaxId
      /\ kb' = [IdleKb("none") EXCEPT !.op = "add_document", !.pc = "embed",
                                      !.page_ids = <<page_id>>, !.k = 1,
                                      !.docs = docs, !.chunks = chunks]
      /\ hist' = NewHist("add_document", FALSE, docs, db, FALSE, {})
      /\ ev' = NoEv
      /\ obs' = NoObs
      /\ UNCHANGED <<notion, db, ck, rq, ps, cc, wf>>

\* add_document(page_id, content) is entered (knowledge_base.py:82-93).
add_document_call(page_id, content) ==
  LET docs == <<[page_id |-> page_id, content |-> content]>>
  IN  /\ kb.op = "idle"
      /\ db.seq + Len(chunk_documents(docs, chunk_size, chunk_overlap)) <= MaxId
      /\ kb' = [IdleKb("none") EXCEPT !.op = "add_document", !.pc = "delete",
                                      !.page_ids = <<page_id>>, !.k = 1,
                                      !.docs = docs]
      /\ hist' = NewHist("add_document", FALSE, docs, db, FALSE, {})
      /\ ev' = NoEv
      /\ obs' = NoObs
      /\ UNCHANGED <<notion, db, ck, rq, ps, cc, wf>>

\* sync_notion_to_database(force_resync) up to its first store call
\* (knowledge_base.py:17-53); failed are the pages whose fetch raises.
sync_call(force_resync, failed) ==
  LET docs == fetch_all_docs_structured(notion, Pages, failed)
      chunks == chunk_documents(docs, chunk_size, chunk_overlap)
  IN  /\ kb.op = "idle"
      /\ db.seq + Len(chunks) <= MaxId
      /\ kb' = IF docs = <<>>
               THEN Return(kb)
               ELSE IF force_resync
               THEN [IdleKb("none") EXCEPT !.op = "sync", !.pc = "delete",
                                           !.page_ids = PageIdsOf(docs),
                                           !.k = 1, !.docs = docs]
               ELSE [IdleKb("none") EXCEPT !.op = "sync", !.pc = "loop",
                                           !.page_ids = PageIdsOf(docs),
                                           !.docs = docs, !.chunks = chunks]
      /\ hist' = NewHist("sync", force_resync, docs, db,
                       hist.op = "sync" /\ kb.ret = "ok" /\ hist.docs = docs,
                       failed)
      /\ ev' = NoEv
      /\ obs' = NoObs
      /\ UNCHANGED <<notion, db, ck, rq, ps, cc, wf>>

\* One delete_chunks_by_page_id call of the orchestrator (knowledge_base.py:48
\* and :96); after the last one the documents are chunked (:52 and :99).
delete_step(failAt) ==
  LET page_id == kb.page_ids[kb.k]
      r == delete_chunks_by_page_id(db, page_id, failAt)
  IN  /\ kb.pc = "delete"
      /\ db' = r.db
      /\ ev' = [op |-> "delete", ok |-> r.ok, failAt |-> failAt, page |-> page_id,
                had |-> PageChunkIds(db, page_id)]
      /\ kb' = IF ~r.ok
               THEN Raise(kb)
               ELSE IF kb.k < Len(kb.page_ids)
               THEN [kb EXCEPT !.k = @ + 1]
               ELSE [kb EXCEPT !.chunks = chunk_documents(kb.docs, chunk_size,
                                                          chunk_overlap),
                               !.pc = IF kb.op = "add_document"
                                      THEN "embed" ELSE "loop"]
      /\ obs' = NoObs
      /\ UNCHANGED <<notion, hist, ck, rq, ps, cc, wf>>

\* An orchestrator that catches the error and goes on with the next batch.
embed_failed_skips_batch(k) ==
  IF k.op = "sync" THEN [k EXCEPT !.i = @ + batch_size] ELSE Return(k)

\* The orchestrator after generate_embeddings raised.
embed_failed(k) == Raise(k)

\* add_document's generate_embeddings(chunk_contents) (knowledge_base.py:103-104).
embed_step ==
  /\ kb.pc = "embed"
  /\ \/ /\ kb' = IF kb.chunks = <<>>
                 THEN Return(kb)
                 ELSE [kb EXCEPT !.embeddings =
                                   generate_embeddings(Contents(kb.chunks)),
                                 !.pc = "store_chunk"]
        /\ UNCHANGED hist
     \/ /\ kb' = embed_failed(kb)
        /\ hist' = [hist EXCEPT !.embed_failed_at = 0]
  /\ ev' = NoEv
  /\ obs' = NoObs
  /\ UNCHANGED <<notion, db, ck, rq, ps, cc, wf>>

\* The head of the sync's batch loop and its generate_embeddings(batch)
\* (knowledge_base.py:60-65), and the return after the last batch (:79).
loop_step ==
  /\ kb.pc = "loop"
  /\ \/ /\ kb.i >= Len(kb.chunks)
        /\ kb' = Return(kb)
        /\ UNCHANGED hist
     \/ /\ kb.i < Len(kb.chunks)
        /\ kb' = [kb EXCEPT !.embeddings =
                              generate_embeddings(
                                Contents(Slice(kb.chunks, kb.i, kb.i + batch_size))),
                            !.j = 0,
                            !.pc = "store_chunk"]
        /\ UNCHANGED hist
     \/ /\ kb.i < Len(kb.chunks)
        /\ kb' = embed_failed(kb)
        /\ hist' = [hist EXCEPT !.embed_failed_at = kb.i]
  /\ ev' = NoEv
  /\ obs' = NoObs
  /\ UNCHANGED <<notion, db, ck, rq, ps, cc, wf>>

\* store_chunk for chunks[i + j] (knowledge_base.py:69-73 and :108-112).
store_chunk_step(failAt) ==
  LET chunk == At(kb.chunks, kb.i + kb.j)
      r == store_chunk(db, chunk.content, chunk.notion_page_id,
                       chunk.chunk_index, failAt)
  IN  /\ kb.pc = "store_chunk"
      /\ db' = r.db
      /\ ev' = [op |-> "store_chunk", ok |-> r.ok, failAt |-> failAt,
                page |-> chunk.notion_page_id, had |-> {}]
      /\ kb' = IF r.ok
               THEN [kb EXCEPT !.chunk_id = r.chunk_id, !.pc = "store_embedding"]
               ELSE Raise(kb)
      /\ hist' = IF r.ok
                 THEN [hist EXCEPT !.stored = Append(@, r.chunk_id)]
                 ELSE hist
      /\ obs' = NoObs
      /\ UNCHANGED <<notion, ck, rq, ps, cc, wf>>

\* serialize_embedding(embeddings[j]) and store_chunk_embedding
\* (knowledge_base.py:76-77 and :114-115), then the next chunk, the next
\* batch, or the return.
store_embedding_step(failAt) ==
  LET embedding_bytes == serialize_embedding(At(kb.embeddings, kb.j))
      r == store_chunk_embedding(db, kb.chunk_id, embedding_bytes, failAt)
  IN  /\ kb.pc = "store_embedding"
      /\ db' = r.db
      /\ ev' = [op |-> "store_chunk_embedding", ok |-> r.ok, failAt |-> failAt,
                page |-> At(kb.chunks, kb.i + kb.j).notion_page_id, had |-> {}]
      /\ kb' = IF ~r.ok
               THEN Raise(kb)
               ELSE IF kb.i + kb.j + 1 < BatchEnd(kb)
               THEN [kb EXCEPT !.j = @ + 1, !.pc = "store_chunk"]
               ELSE IF kb.op = "add_document"
               THEN Return(kb)
               ELSE [kb EXCEPT !.i = @ + batch_size, !.j = 0, !.pc = "loop"]
      /\ obs' = NoObs
      /\ UNCHANGED <<notion, hist, ck, rq, ps, cc, wf>>

\* A reader's get_chunks_by_page_id(page_id) while a call of the orchestrator
\* is in progress: it may come between any two store calls.  It notes whether
\* the call rewrites the page, with the page's chunk contents when the call
\* began (old) and the contents the call is to leave (new).
PageContentsOf(chunks, page_id) ==
  Contents(SelectSeq(chunks, LAMBDA c : c.notion_page_id = page_id))

get_chunks_step(page_id) ==
  LET written == {hist.docs[n].page_id : n \in 1..Len(hist.docs)}
  IN  /\ kb.op # "idle"
      /\ obs' = [page |-> page_id,
                 during |-> page_id \in written,
                 rows |-> Contents(get_chunks_by_page_id(db, page_id)),
                 old |-> Contents(get_chunks_by_page_id(
                           [db EXCEPT !.chunks = hist.before.chunks], page_id)),
                 new |-> PageContentsOf(
                           chunk_documents(hist.docs, chunk_size, chunk_overlap),
                           page_id)]
      /\ UNCHANGED <<notion, db, kb, hist, ev, ck, rq, ps, cc, wf>>

\* post_status stores the post it published and its embedding
\* (mastodon_client.py:117-145), at any point of a run of the orchestrator.
\* mastodon_id is the id the server gave the new status: one that no stored
\* post has.
post_status_store(text, mastodon_id) ==
  LET p == store_post(db, text, mastodon_id, 0)
      embedding_bytes == serialize_embedding(generate_embeddings(<<text>>)[1])
  IN  /\ mastodon_id \notin {r.mastodon_id : r \in db.posts}
      /\ db' = store_post_embedding(p.db, p.post_id, embedding_bytes, 0).db
      /\ UNCHANGED <<notion, kb, hist, ev, obs, ck, rq, ps, cc, wf>>

Next ==
  \/ \E page_id \in PageIds, content \in Docs : add_document_call(page_id, content)
  \/ \E force_resync \in BOOLEAN, failed \in SUBSET PageIds :
       sync_call(force_resync, failed)
  \/ \E failAt \in 0..3 : delete_step(failAt)
  \/ embed_step
  \/ loop_step
  \/ \E failAt \in 0..2 : store_chunk_step(failAt)
  \/ \E failAt \in 0..1 : store_embedding_step(failAt)
  \/ \E page_id \in PageIds : get_chunks_step(page_id)
  \/ post_status_store(<<"b">>, "m1")

Spec == Init /\ [][Next]_vars

(***************************************************************************)
(* Properties.                                                             *)
(***************************************************************************)
Range(f) == {f[n] : n \in 1..Len(f)}

\* C1: in every state, also after a store_chunk or a delete_chunks_by_page_id
\* that raised partway, the rowids of chunks_fts are exactly the ids of chunks.
C1_LexicalRowIffChunkRow == FtsIds(db) = ChunkIds(db)

\* A store_chunk raised at its second INSERT while chunks are stored.
C1_Witness ==
  ev.op = "store_chunk" /\ ev.failAt = 2 /\ db.chunks # {}

\* C2: after every store call that returned, chunks, chunks_fts and
\* chunk_embeddings hold the same number of rows.
C2_RowCountsEqualAfterStoreCall ==
  (ev.op \in {"store_chunk", "store_chunk_embedding", "delete"} /\ ev.ok) =>
    /\ Cardinality(db.chunks) = Cardinality(db.chunks_fts)
    /\ Cardinality(db.chunks) = Cardinality(db.chunk_embeddings)

\* C3: when a sync that found documents, or add_document, has returned, every
\* chunk has an embedding and every embedding a chunk; and no chunk ever has
\* two embeddings.
C3_EveryChunkEmbeddedAfterReturn ==
  /\ (kb.ret = "ok" /\ hist.docs # <<>>) => ChunkIds(db) = EmbeddingIds(db)
  /\ Cardinality(EmbeddingIds(db)) = Cardinality(db.chunk_embeddings)

\* C4: right after delete_chunks_by_page_id(page) returned, the page has no
\* chunk, and no embedding and no chunks_fts row is left for an id the page had.
C4_DeleteRemovesAll ==
  (ev.op = "delete" /\ ev.ok) =>
    /\ get_chunks_by_page_id(db, ev.page) = <<>>
    /\ ev.had \cap EmbeddingIds(db) = {}
    /\ ev.had \cap FtsIds(db) = {}

\* A delete that returned for a page whose chunks had embeddings.
C4_Witness ==
  /\ ev.op = "delete" /\ ev.ok
  /\ ev.had # {}
  /\ ev.had \subseteq {r.chunk_id : r \in hist.before.chunk_embeddings}

\* C5: when add_document(page, content) has returned, the page's chunks in
\* chunk_index order are exactly the chunks of content, numbered from 0,
\* whatever the page held before.
C5_AddDocumentReplaces ==
  (kb.ret = "ok" /\ hist.op = "add_document") =>
    LET rows == get_chunks_by_page_id(db, hist.docs[1].page_id)
        want == chunk_documents(hist.docs, chunk_size, chunk_overlap)
    IN  /\ Len(rows) = Len(want)
        /\ \A n \in 1..Len(rows) :
             /\ rows[n].content = want[n].content
             /\ rows[n].chunk_index = n - 1

\* add_document returned for a page that already held the chunks of the same
\* content: the second of two runs with identical content.
C5_Witness ==
  /\ kb.ret = "ok" /\ hist.op = "add_document"
  /\ hist.before.chunks # {}
  /\ LET page == hist.docs[1].page_id
         old == Contents(get_chunks_by_page_id(
                  [db EXCEPT !.chunks = hist.before.chunks], page))
     IN  /\ old # <<>>
         /\ old = Contents(chunk_documents(hist.docs, chunk_size, chunk_overlap))

\* C6: when a sync has returned that reran a sync of the same documents
\* right after that one returned, with force_resync false or true, and every
\* page of them held exactly the chunk contents of its document after the
\* first run, then every page holds exactly those contents after the rerun.
C6_ResyncIdempotent ==
  LET want(page) == PageContentsOf(
                      chunk_documents(hist.docs, chunk_size, chunk_overlap), page)
      held(page) == Contents(get_chunks_by_page_id(
                      [db EXCEPT !.chunks = hist.before.chunks], page))
      fetched == {hist.docs[n].page_id : n \in 1..Len(hist.docs)}
  IN  (/\ kb.ret = "ok" /\ hist.op = "sync" /\ hist.rerun
       /\ \A page \in fetched : held(page) = want(page))
        => \A page \in fetched :
             Contents(get_chunks_by_page_id(db, page)) = want(page)

\* C7: after any sequence of sync and add_document calls that returned, the
\* chunk_index values of every page are pairwise distinct and are 0..n-1.
C7_OrdinalsContiguous ==
  kb.ret = "ok" =>
    \A page \in PageIds :
      LET rows == {r \in db.chunks : r.notion_page_id = page}
      IN  /\ \A r1, r2 \in rows : r1.chunk_index = r2.chunk_index => r1 = r2
          /\ {r.chunk_index : r \in rows} = 0..(Cardinality(rows) - 1)

\* C8: a get_chunks_by_page_id that runs while add_document or a sync
\* rewrites the page returns the page's complete old chunks or its complete
\* new chunks.
C8_ReaderSeesOldOrNew ==
  obs.during => (obs.rows = obs.old \/ obs.rows = obs.new)

\* C9: when add_document or a sync has raised, the tables are as they were
\* when the call began.
C9_FailureLeavesStoreUntouched ==
  kb.ret = "raised" => Tables(db) = hist.before

\* C10: once generate_embeddings has raised for the batch that starts at
\* chunk i, the call has ended with the error, the chunks it persisted are
\* exactly the i chunks before that batch, and each of them has its embedding.
C10_EmbeddingFailureAborts ==
  hist.embed_failed_at >= 0 =>
    /\ kb.ret = "raised"
    /\ Len(hist.stored) = hist.embed_failed_at
    /\ ChunkIds(db) \ ChunkIds(hist.before) = Range(hist.stored)
    /\ Range(hist.stored) \subseteq EmbeddingIds(db)

\* The embedding of a later batch of a sync raised after a batch was stored.
C10_Witness == hist.op = "sync" /\ hist.embed_failed_at > 0

\* The rows of the three tables that belong to the chunks of a page.
PageRows(t, page) ==
  LET ids == {r.id : r \in {x \in t.chunks : x.notion_page_id = page}}
  IN  [chunks |-> {r \in t.chunks : r.id \in ids},
       chunks_fts |-> {r \in t.chunks_fts : r.rowid \in ids},
       chunk_embeddings |-> {r \in t.chunk_embeddings : r.chunk_id \in ids}]

\* C11: all through a sync, with force_resync or without, the chunks, lexical
\* rows and embeddings of a page whose fetch raised stay as they were when
\* the sync began; and when the sync has returned, the chunks it stored for
\* every other page are the chunks of that page's document, in order, each
\* with its lexical row and its embedding.
C11_FailedFetchIsSkipped ==
  hist.op = "sync" =>
    /\ \A page \in hist.failed :
         PageRows(Tables(db), page) = PageRows(hist.before, page)
    /\ (kb.ret = "ok") =>
         /\ Range(hist.stored) \subseteq
              ChunkIds(db) \cap FtsIds(db) \cap EmbeddingIds(db)
         /\ \A page \in PageIds \ hist.failed :
              LET doc == <<[page_id |-> page, content |-> notion[page]]>>
                  new == SelectSeq(get_chunks_by_page_id(db, page),
                                   LAMBDA r : r.id \in Range(hist.stored))
              IN  Contents(new) =
                    Contents(chunk_documents(doc, chunk_size, chunk_overlap))

\* A sync with force_resync has returned: the fetch of a page that holds
\* chunks raised, and chunks of another page were stored.
C11_Witness ==
  /\ hist.op = "sync" /\ hist.force /\ kb.ret = "ok"
  /\ hist.stored # <<>>
  /\ \E page \in hist.failed : PageChunkIds(db, page) # {}

(***************************************************************************)
(* The chunker on its own: one call of chunk_text, or of chunk_documents   *)
(* for one document, run an iteration of its while loop at a time          *)
(* (chunking.py:45-74 and :103-124).  ck holds the call: its arguments,    *)
(* the cursor start and the cursor before the last iteration (prev), the   *)
(* slices taken so far and the chunks appended so far.                     *)
(***************************************************************************)
\* The texts are all the strings of at most MaxTextLen characters over a
\* letter, a blank and a full stop; chunk_size is 1..MaxChunkSize and
\* chunk_overlap 0..MaxOverlap, so that the overlap reaches past the size.
MaxTextLen == 4
MaxChunkSize == 3
MaxOverlap == 3

ChunkAlphabet == {"a", " ", "."}

Texts == UNION {[1..n -> ChunkAlphabet] : n \in 0..MaxTextLen}

\* The knowledge base when only the chunker or only the retriever runs.
Parked ==
  /\ notion = [p \in PageIds |-> <<>>]
  /\ kb = IdleKb("none")
  /\ hist = NewHist("none", FALSE, <<>>, EmptyDb, FALSE, {})
  /\ ev = NoEv
  /\ obs = NoObs

\* The call is entered: a text of whitespace only returns at once
\* (chunking.py:100-101, and :41-42 for a document).
ChunkInit ==
  /\ Parked
  /\ ps = NoPs
  /\ cc = NoCc
  /\ wf = NoWf
  /\ db = EmptyDb
  /\ rq = NoRq
  /\ \E text \in Texts, size \in 1..MaxChunkSize, overlap \in 0..MaxOverlap :
       ck = [pc |-> IF strip(text) = <<>> THEN "done" ELSE "loop",
             text |-> text, chunk_size |-> size, chunk_overlap |-> overlap,
             start |-> 0, prev |-> -1, slices |-> <<>>, chunks |-> <<>>]

\* One iteration of the while loop.
chunk_step ==
  /\ ck.pc = "loop"
  /\ ck.start < Len(ck.text)
  /\ LET end == chunk_end(ck.text, ck.start, ck.chunk_size)
         chunk_content == strip(Slice(ck.text, ck.start, end))
     IN  ck' = [ck EXCEPT
                  !.chunks = IF chunk_content # <<>>
                             THEN Append(@, [content |-> chunk_content,
                                             chunk_index |-> Len(@)])
                             ELSE @,
                  !.slices = Append(@, [start |-> ck.start, end |-> end,
                                        kept |-> chunk_content # <<>>]),
                  !.prev = ck.start,
                  !.start = next_start(ck.start, end, ck.chunk_overlap)]
  /\ UNCHANGED <<notion, db, kb, hist, ev, obs, rq, ps, cc, wf>>

\* The loop condition fails and the chunks are returned.
chunk_return ==
  /\ ck.pc = "loop"
  /\ ck.start >= Len(ck.text)
  /\ ck' = [ck EXCEPT !.pc = "done"]
  /\ UNCHANGED <<notion, db, kb, hist, ev, obs, rq, ps, cc, wf>>

ChunkNext == chunk_step \/ chunk_return

ChunkSpec == ChunkInit /\ [][ChunkNext]_vars

\* C12: after every iteration of the chunking loop the cursor is
\* max(previous cursor + 1, end of the slice - chunk_overlap) and is greater
\* than the previous cursor, also when chunk_overlap >= chunk_size; so the
\* loop runs at most once per character of the text.
C12_CursorAdvances ==
  (ck.pc # "none" /\ ck.slices # <<>>) =>
    LET last == ck.slices[Len(ck.slices)]
    IN  /\ ck.prev = last.start
        /\ ck.start = Max(ck.prev + 1, last.end - ck.chunk_overlap)
        /\ ck.start > ck.prev
        /\ Len(ck.slices) <= Len(ck.text)

\* A call with chunk_overlap >= chunk_size has returned after several
\* iterations.
C12_Witness ==
  /\ ck.pc = "done"
  /\ ck.chunk_overlap >= ck.chunk_size
  /\ Len(ck.slices) >= 3

\* The chunks of the call: those the loop has appended so far, and those
\* chunk_text and chunk_documents return for the same arguments.
ProducedChunks ==
  LET doc == <<[page_id |-> "p1", content |-> ck.text]>>
  IN  {c.content : c \in Range(ck.chunks)}
        \cup Range(chunk_text(ck.text, ck.chunk_size, ck.chunk_overlap))
        \cup {c.content :
                c \in Range(chunk_documents(doc, ck.chunk_size, ck.chunk_overlap))}

\* C13: every chunk is non-empty, begins and ends with a character that is
\* not whitespace, and is at most chunk_size characters long, so also at
\* most chunk_size plus 150 (the two lookbacks): a boundary only ever moves
\* the end of a slice back.
C13_ChunksTrimmedAndBounded ==
  ck.pc # "none" =>
    \A c \in ProducedChunks :
      /\ c # <<>>
      /\ c[1] \notin Whitespace
      /\ c[Len(c)] \notin Whitespace
      /\ Len(c) <= ck.chunk_size
      /\ Len(c) <= ck.chunk_size + SentenceLookback + WordLookback

\* A call has returned chunks, one of them cut out of a slice that began or
\* ended with whitespace.
C13_Witness ==
  /\ ck.pc = "done"
  /\ \E n \in 1..Len(ck.slices) :
       LET slice == Slice(ck.text, ck.slices[n].start, ck.slices[n].end)
       IN  ck.slices[n].kept /\ strip(slice) # slice

\* C14: a call that has returned gave no chunk for a text of whitespace
\* only, and for a text shorter than chunk_size exactly one chunk, the
\* trimmed text, whatever chunk_overlap >= 0 is.
C14_ShortInputOneChunk ==
  ck.pc = "done" =>
    LET chunks == [n \in 1..Len(ck.chunks) |-> ck.chunks[n].content]
    IN  /\ strip(ck.text) = <<>> => chunks = <<>>
        /\ (strip(ck.text) # <<>> /\ Len(ck.text) < ck.chunk_size) =>
             chunks = <<strip(ck.text)>>

\* The chunk appended for the n-th slice, a kept one.
ChunkOfSlice(n) ==
  ck.chunks[Cardinality({m \in 1..n : ck.slices[m].kept})].content

\* C15: the first slice starts at 0, every later slice starts after the start
\* of the one before it and at or before its end, and when the call has
\* returned every character of the text that is not whitespace is in a
\* chunk, at its place: in the chunk of a slice that spans its position.
C15_ChunksCoverText ==
  ck.pc # "none" =>
    /\ ck.slices # <<>> => ck.slices[1].start = 0
    /\ \A n \in 1..(Len(ck.slices) - 1) :
         /\ ck.slices[n + 1].start > ck.slices[n].start
         /\ ck.slices[n + 1].start <= ck.slices[n].end
    /\ ck.pc = "done" =>
         \A p \in 0..(Len(ck.text) - 1) :
           At(ck.text, p) \notin Whitespace =>
             \E n \in 1..Len(ck.slices) :
               LET slice == Slice(ck.text, ck.slices[n].start, ck.slices[n].end)
                   q == p - ck.slices[n].start - (Len(slice) - Len(lstrip(slice)))
               IN  /\ ck.slices[n].kept
                   /\ q \in 0..(Len(ChunkOfSlice(n)) - 1)
                   /\ At(ChunkOfSlice(n), q) = At(ck.text, p)

\* A call with an overlap has returned several chunks and has dropped a slice
\* of whitespace.
C15_Witness ==
  /\ ck.pc = "done"
  /\ ck.chunk_overlap > 0
  /\ Len(ck.chunks) >= 2
  /\ \E n \in 1..Len(ck.slices) : ~ck.slices[n].kept

(***************************************************************************)
(* rag_retriever.py.  Scores are rational numbers [n, d] with d > 0,       *)
(* computed as the code computes its floats and compared by cross          *)
(* multiplication; rounding is left out.  The two engines the search       *)
(* consults are outside the repository: SQLite FTS5 (which chunks_fts rows *)
(* MATCH the query, and their rank) and the embedding model (the cosine    *)
(* similarity of the query to each stored vector).  Their answers for the  *)
(* query are inputs: rank, a function on the ids of the matching rows, and *)
(* sim, a function on the ids of the embedding rows (a post p under -p).   *)
(* What Python and SQL leave open is an input as well: the order in which  *)
(* rows of equal rank come back, and the iteration order of a set.         *)
(***************************************************************************)
Frac(n, d) == [d |-> d, n |-> n]

FAdd(x, y) == Frac(x.n * y.d + y.n * x.d, x.d * y.d)

FSub(x, y) == Frac(x.n * y.d - y.n * x.d, x.d * y.d)

FMul(x, y) == Frac(x.n * y.n, x.d * y.d)

FEq(x, y) == x.n * y.d = y.n * x.d

FLess(x, y) == x.n * y.d < y.n * x.d

\* The orders a set of ids can be listed in.
RECURSIVE Orderings(_)
Orderings(S) ==
  IF S = {}
  THEN {<<>>}
  ELSE UNION {{<<x>> \o o : o \in Orderings(S \ {x})} : x \in S}

\* dict.get(id, 0.0)
Get(results, id) == IF id \in DOMAIN results THEN results[id] ELSE Frac(0, 1)

\* s[:k]
Prefix(s, k) == IF k >= 0 THEN Slice(s, 0, k) ELSE Slice(s, 0, Max(0, Len(s) + k))

\* query.replace('"', '""')
RECURSIVE escape_quotes(_)
escape_quotes(query) ==
  IF query = <<>>
  THEN <<>>
  ELSE (IF Head(query) = "\"" THEN <<"\"", "\"">> ELSE <<Head(query)>>)
         \o escape_quotes(Tail(query))

\* The characters FTS5 takes as part of a bareword.
BarewordChars == {"a", "b"}

\* Whether FTS5 parses q as a query: one or more phrases, each a bareword or
\* a string in double quotes (a doubled quote inside stands for a quote);
\* any other character outside a string, an unterminated string, and a query
\* without a phrase are syntax errors.
RECURSIVE Fts5Parses(_, _, _)
Fts5Parses(q, in_string, phrases) ==
  IF q = <<>>
  THEN ~in_string /\ phrases > 0
  ELSE IF in_string
  THEN IF Head(q) # "\""
       THEN Fts5Parses(Tail(q), TRUE, phrases)
       ELSE IF Len(q) >= 2 /\ q[2] = "\""
       THEN Fts5Parses(Tail(Tail(q)), TRUE, phrases)
       ELSE Fts5Parses(Tail(q), FALSE, 1)
  ELSE IF Head(q) = "\""
  THEN Fts5Parses(Tail(q), TRUE, phrases)
  ELSE IF Head(q) \in Whitespace
  THEN Fts5Parses(Tail(q), FALSE, phrases)
  ELSE IF Head(q) \in BarewordChars
  THEN Fts5Parses(Tail(q), FALSE, 1)
  ELSE FALSE

PostIds(d) == {r.id : r \in d.posts}

PostEmbeddingIds(d) == {r.post_id : r \in d.post_embeddings}

\* The orders in which SELECT ... WHERE chunks_fts MATCH ? ORDER BY rank can
\* return the matching rows that join a chunk.
RankedRows(d, rank) ==
  LET matching == DOMAIN rank \cap FtsIds(d) \cap ChunkIds(d)
  IN  {o \in Orderings(matching) :
         \A i \in 1..(Len(o) - 1) : rank[o[i]] <= rank[o[i + 1]]}

\* A _bm25_search that does not invert the normalised rank: the row FTS5
\* ranks last gets 1.
_bm25_search_not_inverted(d, rank, query, limit, ranked) ==
  LET query_escaped == escape_quotes(query)
      rows == IF limit < 0 THEN ranked ELSE Slice(ranked, 0, limit)
      ranks == {rank[rows[n]] : n \in 1..Len(rows)}
      max_rank == SetMax(ranks)
      min_rank == CHOOSE x \in ranks : \A y \in ranks : x <= y
  IN  [ok |-> Fts5Parses(query_escaped, FALSE, 0),
       results |->
         [id \in Range(rows) |->
            IF max_rank > min_rank
            THEN Frac(rank[id] - min_rank, max_rank - min_rank)
            ELSE Frac(1, 1)]]

\* _bm25_search(query, limit): ok is FALSE when the MATCH raised, results is
\* the dict of normalised scores.  A negative LIMIT is no limit.
_bm25_search(d, rank, query, limit, ranked) ==
  LET query_escaped == escape_quotes(query)
      rows == IF limit < 0 THEN ranked ELSE Slice(ranked, 0, limit)
      ranks == {rank[rows[n]] : n \in 1..Len(rows)}
      max_rank == SetMax(ranks)
      min_rank == CHOOSE x \in ranks : \A y \in ranks : x <= y
  IN  [ok |-> Fts5Parses(query_escaped, FALSE, 0),
       results |->
         [id \in Range(rows) |->
            IF max_rank > min_rank
            THEN FSub(Frac(1, 1), Frac(rank[id] - min_rank, max_rank - min_rank))
            ELSE Frac(1, 1)]]

\* get_chunk(chunk_id) of rag_database.py, and the SELECT of a post by id.
get_chunk(d, chunk_id) == CHOOSE r \in d.chunks : r.id = chunk_id

get_post(d, post_id) == CHOOSE r \in d.posts : r.id = post_id

\* A semantic search that files a post under its own id, without the sign.
_semantic_search_unsigned(d, sim, query, limit, include_posts) ==
  LET posts == IF include_posts THEN PostEmbeddingIds(d) ELSE {}
  IN  [id \in EmbeddingIds(d) \cup posts |->
         Frac(IF id \in posts THEN sim[-id] ELSE sim[id], 1)]

\* _semantic_search(query, limit, include_posts): every chunk embedding, and
\* every post embedding when asked, with its similarity; limit is not used.
_semantic_search(d, sim, query, limit, include_posts) ==
  LET ids == EmbeddingIds(d)
               \cup (IF include_posts THEN {-p : p \in PostEmbeddingIds(d)} ELSE {})
  IN  [id \in ids |-> Frac(sim[id], 1)]

\* _combine_results with the two weights exchanged.
_combine_results_swapped(d, bm25_results, semantic_results, alpha, order) ==
  LET kept == SelectSeq(order, LAMBDA id : IF id < 0 THEN -id \in PostIds(d)
                                                     ELSE id \in ChunkIds(d))
  IN  [n \in 1..Len(kept) |->
         LET chunk_id == kept[n]
             bm25_score == Get(bm25_results, chunk_id)
             semantic_score == Get(semantic_results, chunk_id)
         IN  [chunk_id |-> chunk_id,
              content |-> IF chunk_id < 0
                          THEN get_post(d, -chunk_id).content
                          ELSE get_chunk(d, chunk_id).content,
              score |-> FAdd(FMul(alpha, bm25_score),
                             FMul(FSub(Frac(1, 1), alpha), semantic_score)),
              bm25_score |-> IF chunk_id < 0 THEN Frac(0, 1) ELSE bm25_score,
              semantic_score |-> semantic_score]]

\* _combine_results: order is the iteration order of all_ids; an id without
\* a row (posts for a negative id, chunks otherwise) is left out.
_combine_results(d, bm25_results, semantic_results, alpha, order) ==
  LET kept == SelectSeq(order, LAMBDA id : IF id < 0 THEN -id \in PostIds(d)
                                                     ELSE id \in ChunkIds(d))
  IN  [n \in 1..Len(kept) |->
         LET chunk_id == kept[n]
             bm25_score == Get(bm25_results, chunk_id)
             semantic_score == Get(semantic_results, chunk_id)
         IN  [chunk_id |-> chunk_id,
              content |-> IF chunk_id < 0
                          THEN get_post(d, -chunk_id).content
                          ELSE get_chunk(d, chunk_id).content,
              score |-> FAdd(FMul(alpha, semantic_score),
                             FMul(FSub(Frac(1, 1), alpha), bm25_score)),
              bm25_score |-> IF chunk_id < 0 THEN Frac(0, 1) ELSE bm25_score,
              semantic_score |-> semantic_score]]

RECURSIVE sort_by_score(_)
\* A sort that puts the lowest score first.
sort_by_score_ascending(combined) ==
  IF combined = <<>>
  THEN <<>>
  ELSE LET first == Head(combined)
           rest == sort_by_score(Tail(combined))
       IN  SelectSeq(rest, LAMBDA x : FLess(x.score, first.score))
             \o <<first>>
             \o SelectSeq(rest, LAMBDA x : ~FLess(x.score, first.score))

\* combined.sort(key=lambda x: x.score, reverse=True): a stable sort, so
\* results of equal score stay in the order they had.
sort_by_score(combined) ==
  IF combined = <<>>
  THEN <<>>
  ELSE LET first == Head(combined)
           rest == sort_by_score(Tail(combined))
       IN  SelectSeq(rest, LAMBDA x : FLess(first.score, x.score))
             \o <<first>>
             \o SelectSeq(rest, LAMBDA x : ~FLess(first.score, x.score))

\* hybrid_search(query, top_k, alpha, include_posts) (rag_retriever.py:42-53):
\* raised is TRUE when _bm25_search raised, which nothing catches.
hybrid_search(d, rank, sim, query, top_k, alpha, include_posts, ranked, order) ==
  LET bm25 == _bm25_search(d, rank, query, top_k * 2, ranked)
      semantic_results == _semantic_search(d, sim, query, top_k * 2, include_posts)
      combined == _combine_results(d, bm25.results, semantic_results, alpha, order)
  IN  IF ~bm25.ok
      THEN [raised |-> TRUE, bm25_results |-> <<>>, semantic_results |-> <<>>,
            results |-> <<>>]
      ELSE [raised |-> FALSE, bm25_results |-> bm25.results,
            semantic_results |-> semantic_results,
            results |-> Prefix(sort_by_score(combined), top_k)]

(***************************************************************************)
(* The retriever on its own: one hybrid_search call on a store at rest.    *)
(* rq holds the answers of the two engines, the arguments of the call and  *)
(* what it returned.                                                       *)
(***************************************************************************)
\* top_k is 0..MaxTopK and alpha is a / AlphaDen for a in 0..AlphaDen + 1:
\* a top_k that is not positive and an alpha above 1 are among the inputs.
MaxTopK == 2
AlphaDen == 2

\* The store holds three chunks, each with its chunks_fts row and with or
\* without an embedding, and one post with its embedding.
SearchChunkIds == {1, 2, 3}

\* FTS5 ranks (lower is better) and cosine similarities.
Ranks == {-3, -2, -1}

Sims == {-1, 1}

\* The similarity of the query to the post: as high as a chunk can have.
PostSim == SetMax(Sims)

\* The queries: empty, a word, a word after a double quote, two words
\* joined by a hyphen.
Queries == { <<>>, <<"a">>, <<"\"", "a">>, <<"a", "-", "b">> }

RECURSIVE SearchStore(_, _)
SearchStore(n, embedded) ==
  IF n = 0
  THEN EmptyDb
  ELSE LET c == store_chunk(SearchStore(n - 1, embedded), <<"a">>, "p1", n - 1, 0)
       IN  IF c.chunk_id \in embedded
           THEN store_chunk_embedding(c.db, c.chunk_id,
                                      serialize_embedding(Embed(<<"a">>)), 0).db
           ELSE c.db

WithPost(d) ==
  LET p == store_post(d, <<"b">>, "m1", 0)
  IN  store_post_embedding(p.db, p.post_id,
                           serialize_embedding(Embed(<<"b">>)), 0).db

\* The chunks are interchangeable (nothing in the search depends on which
\* id a chunk has, the orders being inputs), so of the stores that differ
\* only by a renaming of the chunk ids one is taken: the one whose chunks
\* are in the order of EngineKey.
EngineKey(id, rank, sim) ==
  3 * (IF id \in DOMAIN rank THEN rank[id] ELSE 0)
    + (IF id \in DOMAIN sim THEN sim[id] ELSE 0)

SearchInit ==
  /\ Parked
  /\ ps = NoPs
  /\ cc = NoCc
  /\ wf = NoWf
  /\ ck = NoCk
  /\ \E embedded \in SUBSET SearchChunkIds, matching \in SUBSET SearchChunkIds :
       \E rank \in [matching -> Ranks], sim \in [embedded -> Sims] :
         /\ \A i, j \in SearchChunkIds :
              i < j => EngineKey(i, rank, sim) <= EngineKey(j, rank, sim)
         /\ db = WithPost(SearchStore(Cardinality(SearchChunkIds), embedded))
         /\ rq = [pc |-> "idle", rank |-> rank,
                  sim |-> [id \in embedded \cup {-1} |->
                             IF id = -1 THEN PostSim ELSE sim[id]],
                  query |-> <<>>, top_k |-> 0, alpha |-> Frac(0, 1),
                  include_posts |-> FALSE, all_ids |-> {},
                  bm25_results |-> <<>>, semantic_results |-> <<>>,
                  results |-> <<>>, error |-> ""]

\* The iteration orders of the set all_ids that the stable sort leaves as
\* they are: every other order is sorted into one of these, so the call
\* returns the same lists with them as with all orders.
IterationOrders(d, bm25_results, semantic_results, alpha, all_ids) ==
  LET score == [id \in all_ids |->
                 FAdd(FMul(alpha, Get(semantic_results, id)),
                      FMul(FSub(Frac(1, 1), alpha), Get(bm25_results, id)))]
  IN  {o \in Orderings(all_ids) :
         \A i \in 1..(Len(o) - 1) : ~FLess(score[o[i]], score[o[i + 1]])}

\* The call with its arguments noted.
Called(query, top_k, alpha, include_posts) ==
  [rq EXCEPT !.query = query, !.top_k = top_k, !.alpha = alpha,
             !.include_posts = include_posts]

\* One call: ranked is the order FTS5 returns the matching rows in, order the
\* iteration order of the set all_ids.  The call raises out of _bm25_search,
\* or returns its results.
hybrid_search_call(query, top_k, alpha, include_posts) ==
  /\ rq.pc = "idle"
  /\ \/ /\ ~Fts5Parses(escape_quotes(query), FALSE, 0)
        /\ rq' = [Called(query, top_k, alpha, include_posts)
                    EXCEPT !.pc = "raised",
                           !.error = "sqlite3.OperationalError"]
     \/ /\ Fts5Parses(escape_quotes(query), FALSE, 0)
        /\ \E ranked \in RankedRows(db, rq.rank) :
             LET bm25 == _bm25_search(db, rq.rank, query, top_k * 2, ranked)
                 semantic_results ==
                   _semantic_search(db, rq.sim, query, top_k * 2, include_posts)
                 all_ids == DOMAIN bm25.results \cup DOMAIN semantic_results
             IN  \E order \in IterationOrders(db, bm25.results, semantic_results,
                                              alpha, all_ids) :
                   LET r == hybrid_search(db, rq.rank, rq.sim, query, top_k,
                                          alpha, include_posts, ranked, order)
                   IN  /\ ~r.raised
                       /\ rq' = [Called(query, top_k, alpha, include_posts)
                                   EXCEPT !.pc = "returned",
                                          !.all_ids = all_ids,
                                          !.bm25_results = r.bm25_results,
                                          !.semantic_results = r.semantic_results,
                                          !.results = r.results]
  /\ UNCHANGED <<notion, db, kb, hist, ev, obs, ck, ps, cc, wf>>

SearchNext ==
  \E query \in Queries, top_k \in 0..MaxTopK, a \in 0..(AlphaDen + 1),
     include_posts \in BOOLEAN :
    hybrid_search_call(query, top_k, Frac(a, AlphaDen), include_posts)

SearchSpec == SearchInit /\ [][SearchNext]_vars

\* The ids a call gathered that have a row: the candidates it ranks.
Candidates ==
  {id \in rq.all_ids : IF id < 0 THEN -id \in PostIds(db) ELSE id \in ChunkIds(db)}

\* The combined score of a candidate, from the two result sets of the call.
CombinedScore(id) ==
  FAdd(FMul(rq.alpha, Get(rq.semantic_results, id)),
       FMul(FSub(Frac(1, 1), rq.alpha), Get(rq.bm25_results, id)))

\* C16: a call with top_k >= 1 that has returned gave min(top_k, number of
\* candidates) results, each a different candidate, no result with a higher
\* combined score than a result before it, and no candidate left out with a
\* higher combined score than a result.
C16_TopKSortedResults ==
  (rq.pc = "returned" /\ rq.top_k >= 1) =>
    LET ids == [n \in 1..Len(rq.results) |-> rq.results[n].chunk_id]
    IN  /\ Len(rq.results) = Min(rq.top_k, Cardinality(Candidates))
        /\ Range(ids) \subseteq Candidates
        /\ Cardinality(Range(ids)) = Len(ids)
        /\ \A i, j \in 1..Len(rq.results) :
             i < j => ~FLess(rq.results[i].score, rq.results[j].score)
        /\ \A n \in 1..Len(rq.results) :
             /\ FEq(rq.results[n].score, CombinedScore(ids[n]))
             /\ \A id \in Candidates \ Range(ids) :
                  ~FLess(rq.results[n].score, CombinedScore(id))

\* A call returned top_k = 2 results of different scores out of more
\* candidates, a chunk and a post among them.
C16_Witness ==
  /\ rq.pc = "returned" /\ rq.top_k = 2
  /\ Cardinality(Candidates) > 2
  /\ Len(rq.results) = 2
  /\ FLess(rq.results[2].score, rq.results[1].score)
  /\ \E id \in Candidates : id < 0

\* C17: a call with top_k >= 1 that has returned with alpha = 0 gave lexical
\* candidates only, as many as top_k allows, in the order of their rank; and
\* with alpha = 1 it gave candidates of the semantic search only, as many as
\* top_k allows, in descending order of their cosine similarity.
C17_PureOrderings ==
  (rq.pc = "returned" /\ rq.top_k >= 1) =>
    LET ids == [n \in 1..Len(rq.results) |-> rq.results[n].chunk_id]
        lexical == DOMAIN rq.bm25_results
        semantic == DOMAIN rq.semantic_results
    IN  /\ FEq(rq.alpha, Frac(0, 1)) =>
             /\ Range(ids) \subseteq lexical
             /\ Len(ids) = Min(rq.top_k, Cardinality(lexical))
             /\ \A i, j \in 1..Len(ids) :
                  i < j => rq.rank[ids[i]] <= rq.rank[ids[j]]
        /\ FEq(rq.alpha, Frac(1, 1)) =>
             /\ Range(ids) \subseteq semantic
             /\ Len(ids) = Min(rq.top_k, Cardinality(semantic \cap Candidates))
             /\ \A i, j \in 1..Len(ids) :
                  i < j => rq.sim[ids[i]] >= rq.sim[ids[j]]

\* C18: every result of a call that has returned has score = alpha *
\* semantic_score + (1 - alpha) * bm25_score, where semantic_score is the
\* cosine similarity of its embedding, or 0 when the semantic search gave no
\* entry for it, and bm25_score is its normalised lexical score, or 0 when
\* the lexical search gave no entry for it.
C18_ScoreIsWeightedSum ==
  rq.pc = "returned" =>
    \A n \in 1..Len(rq.results) :
      LET r == rq.results[n]
      IN  /\ FEq(r.score,
                 FAdd(FMul(rq.alpha, r.semantic_score),
                      FMul(FSub(Frac(1, 1), rq.alpha), r.bm25_score)))
          /\ FEq(r.semantic_score,
                 IF r.chunk_id \in DOMAIN rq.semantic_results
                 THEN Frac(rq.sim[r.chunk_id], 1) ELSE Frac(0, 1))
          /\ FEq(r.bm25_score,
                 IF r.chunk_id \in DOMAIN rq.bm25_results
                 THEN rq.bm25_results[r.chunk_id] ELSE Frac(0, 1))

\* A call with 0 < alpha < 1 returned a chunk that matched and has no
\* embedding, and a chunk with an embedding that did not match.
C18_Witness ==
  /\ rq.pc = "returned"
  /\ FLess(Frac(0, 1), rq.alpha) /\ FLess(rq.alpha, Frac(1, 1))
  /\ \E i, j \in 1..Len(rq.results) :
       /\ rq.results[i].chunk_id \in DOMAIN rq.bm25_results \ DOMAIN rq.semantic_results
       /\ FLess(Frac(0, 1), rq.results[i].bm25_score)
       /\ rq.results[j].chunk_id \in DOMAIN rq.semantic_results \ DOMAIN rq.bm25_results
       /\ rq.results[j].chunk_id > 0

\* C19: a call with a query that is not empty does not end with the error of
\* a malformed MATCH expression: it returns.
C19_QueryNeverMalformed ==
  (rq.pc # "idle" /\ rq.query # <<>>) =>
    /\ rq.error # "sqlite3.OperationalError"
    /\ rq.pc = "returned"

\* C20: a call with an empty query, with a top_k below 1 or with an alpha
\* outside 0..1 ends with an error and returns no results.
C20_InvalidInputRejected ==
  (/\ rq.pc # "idle"
   /\ \/ rq.query = <<>>
      \/ rq.top_k < 1
      \/ FLess(rq.alpha, Frac(0, 1))
      \/ FLess(Frac(1, 1), rq.alpha))
    => (rq.pc = "raised" /\ rq.results = <<>>)

\* C21: the results of a call that has returned are for different ids; a
\* result with a negative id is a post, returned only with include_posts,
\* with the post's content, the similarity of the post's embedding and the
\* lexical score 0; a result with a positive id is a chunk, with the chunk's
\* content and the similarity of the chunk's own embedding (0 without one),
\* also when a post has the same number as id; and when top_k does not cut
\* the list, every post that has an embedding is among the results.
C21_ChunkAndPostApart ==
  rq.pc = "returned" =>
    LET ids == {rq.results[n].chunk_id : n \in 1..Len(rq.results)}
    IN  /\ Cardinality(ids) = Len(rq.results)
        /\ \A n \in 1..Len(rq.results) :
             LET r == rq.results[n]
             IN  IF r.chunk_id < 0
                 THEN /\ rq.include_posts
                      /\ -r.chunk_id \in PostIds(db) \cap PostEmbeddingIds(db)
                      /\ r.content = get_post(db, -r.chunk_id).content
                      /\ FEq(r.semantic_score, Frac(rq.sim[r.chunk_id], 1))
                      /\ FEq(r.bm25_score, Frac(0, 1))
                 ELSE /\ r.chunk_id \in ChunkIds(db)
                      /\ r.content = get_chunk(db, r.chunk_id).content
                      /\ FEq(r.semantic_score,
                             IF r.chunk_id \in EmbeddingIds(db)
                             THEN Frac(rq.sim[r.chunk_id], 1) ELSE Frac(0, 1))
        /\ (rq.include_posts /\ Len(rq.results) < rq.top_k) =>
             \A p \in PostIds(db) \cap PostEmbeddingIds(db) : -p \in ids

\* A call returned chunk 1 and post 1, of different contents and different
\* similarities.
C21_Witness ==
  /\ rq.pc = "returned"
  /\ \E i, j \in 1..Len(rq.results) :
       /\ rq.results[i].chunk_id = 1
       /\ rq.results[j].chunk_id = -1
       /\ rq.results[i].content # rq.results[j].content
       /\ ~FEq(rq.results[i].semantic_score, rq.results[j].semantic_score)

\* C22: the results of a call that has returned, and with them the
\* candidates that made the top_k cut, are the same for every order in which
\* the set of candidate ids can be iterated: candidates of equal score are
\* put in one order whatever the iteration order of the set was.
C22_TieBreakDeterministic ==
  rq.pc = "returned" =>
    \A order \in IterationOrders(db, rq.bm25_results, rq.semantic_results,
                                 rq.alpha, rq.all_ids) :
      Prefix(sort_by_score(_combine_results(db, rq.bm25_results,
                                            rq.semantic_results, rq.alpha,
                                            order)),
             rq.top_k) = rq.results

\* C23: a step of delete_chunks_by_page_id(A), by a sync or by add_document,
\* and every step of add_document(A, ...) leaves the chunks, the chunks_fts
\* rows and the embeddings of every other page as they were, and the posts
\* and their embeddings as well; and a delete for a page that holds no chunk
\* leaves the whole database as it was.
C23_WritesOnlyItsPage ==
  [][(kb' # kb /\ (kb.pc = "delete" \/ kb.op = "add_document")) =>
       LET A == kb.page_ids[kb.k]
       IN  /\ \A other \in PageIds \ {A} :
                PageRows(Tables(db'), other) = PageRows(Tables(db), other)
           /\ db'.posts = db.posts
           /\ db'.post_embeddings = db.post_embeddings
           /\ (kb.pc = "delete" /\ PageChunkIds(db, A) = {}) => db' = db]_vars

\* add_document has replaced the chunks of a page while another page held
\* chunks and a post with its embedding was stored.
C23_Witness ==
  /\ hist.op = "add_document" /\ kb.ret = "ok"
  /\ hist.stored # <<>>
  /\ LET A == hist.docs[1].page_id
     IN  /\ PageRows(hist.before, A).chunks # {}
         /\ \E other \in PageIds \ {A} :
              /\ PageRows(Tables(db), other).chunk_embeddings # {}
              /\ PageRows(Tables(db), other) = PageRows(hist.before, other)
  /\ PostIds(db) \cap PostEmbeddingIds(db) # {}

(***************************************************************************)
(* Two add_document calls for one page side by side: two processes, each   *)
(* with its own connections to the database file, and nothing that makes   *)
(* one wait for the other (knowledge_base.py:82-117 takes no lock;         *)
(* notion_listener.py:129-148 calls it from every listener that runs).     *)
(* Every store call is one transaction, so the calls interleave between    *)
(* store calls.  cc holds the page and, for each writer, its content, its  *)
(* chunks and embeddings, the chunk it is at and the id of that chunk.     *)
(***************************************************************************)
Writers == {1, 2}

ConcInit ==
  /\ Parked
  /\ db = EmptyDb
  /\ ck = NoCk
  /\ rq = NoRq
  /\ ps = NoPs
  /\ wf = NoWf
  /\ \E page_id \in PageIds, content \in [Writers -> Docs] :
       cc = [pc |-> "run", page_id |-> page_id,
             w |-> [n \in Writers |->
                      [pc |-> "delete", content |-> content[n], chunks |-> <<>>,
                       embeddings |-> <<>>, j |-> 0, chunk_id |-> 0]]]

\* delete_chunks_by_page_id(page_id), then the chunks and their embeddings
\* (knowledge_base.py:96-104).
writer_delete(n) ==
  LET me == cc.w[n]
      chunks == chunk_documents(<<[page_id |-> cc.page_id,
                                   content |-> me.content]>>,
                                chunk_size, chunk_overlap)
  IN  /\ cc.pc = "run"
      /\ me.pc = "delete"
      /\ db' = delete_chunks_by_page_id(db, cc.page_id, 0).db
      /\ cc' = [cc EXCEPT !.w[n] =
                  [me EXCEPT !.chunks = chunks,
                             !.embeddings = generate_embeddings(Contents(chunks)),
                             !.pc = IF chunks = <<>> THEN "done"
                                    ELSE "store_chunk"]]
      /\ UNCHANGED <<notion, kb, hist, ev, obs, ck, rq, ps, wf>>

\* store_chunk for the writer's next chunk (knowledge_base.py:108-112).
writer_store_chunk(n) ==
  LET me == cc.w[n]
      chunk == At(me.chunks, me.j)
      r == store_chunk(db, chunk.content, chunk.notion_page_id,
                       chunk.chunk_index, 0)
  IN  /\ cc.pc = "run"
      /\ me.pc = "store_chunk"
      /\ db' = r.db
      /\ cc' = [cc EXCEPT !.w[n] = [me EXCEPT !.chunk_id = r.chunk_id,
                                              !.pc = "store_embedding"]]
      /\ UNCHANGED <<notion, kb, hist, ev, obs, ck, rq, ps, wf>>

\* store_chunk_embedding for that chunk (knowledge_base.py:114-115), then the
\* next chunk or the return.
writer_store_embedding(n) ==
  LET me == cc.w[n]
      embedding_bytes == serialize_embedding(At(me.embeddings, me.j))
  IN  /\ cc.pc = "run"
      /\ me.pc = "store_embedding"
      /\ db' = store_chunk_embedding(db, me.chunk_id, embedding_bytes, 0).db
      /\ cc' = [cc EXCEPT !.w[n] =
                  [me EXCEPT !.j = @ + 1,
                             !.pc = IF me.j + 1 < Len(me.chunks)
                                    THEN "store_chunk" ELSE "done"]]
      /\ UNCHANGED <<notion, kb, hist, ev, obs, ck, rq, ps, wf>>

ConcNext ==
  \E n \in Writers :
    \/ writer_delete(n)
    \/ writer_store_chunk(n)
    \/ writer_store_embedding(n)

ConcSpec == ConcInit /\ [][ConcNext]_vars

\* C24: when both add_document calls for the page have returned, the page
\* holds the chunks of the content of one of the two calls and nothing else:
\* its chunks in chunk_index order are the chunks of that content, numbered
\* 0, 1, 2, ... without a repeat, and each has its chunks_fts row and its
\* embedding.
C24_OneWriterWins ==
  (cc.pc = "run" /\ \A n \in Writers : cc.w[n].pc = "done") =>
    LET rows == get_chunks_by_page_id(db, cc.page_id)
    IN  /\ \E n \in Writers :
             /\ Contents(rows) = Contents(cc.w[n].chunks)
             /\ \A k \in 1..Len(rows) : rows[k].chunk_index = k - 1
        /\ \A k \in 1..Len(rows) :
             rows[k].id \in FtsIds(db) \cap EmbeddingIds(db)

\* C25: when a sync has returned, every chunk it stored has an embedding,
\* and that embedding is the serialized embedding of the chunk's own content:
\* what generate_embeddings gives for that content alone.
C25_EmbeddingOfOwnContent ==
  (hist.op = "sync" /\ kb.ret = "ok") =>
    \A id \in Range(hist.stored) :
      id \in ChunkIds(db) =>
        /\ id \in EmbeddingIds(db)
        /\ \A e \in db.chunk_embeddings :
             e.chunk_id = id =>
               e.embedding =
                 serialize_embedding(
                   generate_embeddings(<<get_chunk(db, id).content>>)[1])

\* A sync has returned that stored, in one batch, chunks of two pages with
\* different contents; or that stored more chunks than one batch holds, the
\* last batch not full.
C25_Witness ==
  /\ hist.op = "sync" /\ kb.ret = "ok"
  /\ Range(hist.stored) \subseteq ChunkIds(db)
  /\ \/ /\ Len(hist.stored) = batch_size
        /\ \E i, j \in Range(hist.stored) :
             /\ get_chunk(db, i).notion_page_id # get_chunk(db, j).notion_page_id
             /\ get_chunk(db, i).content # get_chunk(db, j).content
     \/ /\ Len(hist.stored) > batch_size
        /\ Len(hist.stored) % batch_size # 0

(***************************************************************************)
(* The post store on its own: post_status stores each post it published    *)
(* with store_post and then store_post_embedding for the id that returned  *)
(* (mastodon_client.py:117-145); an exception of either is caught and      *)
(* printed.  ps holds the post being stored, the id store_post returned    *)
(* and the mastodon ids stored so far.                                     *)
(***************************************************************************)
\* AUTOINCREMENT ids of posts handed out in a behaviour.
MaxPostId == 3

MastodonIds == {"m1", "m2"}

PostTexts == { <<"a">>, <<"b">> }

PostInit ==
  /\ Parked
  /\ db = EmptyDb
  /\ ck = NoCk
  /\ rq = NoRq
  /\ cc = NoCc
  /\ wf = NoWf
  /\ ps = [pc |-> "idle", text |-> <<>>, mastodon_id |-> "", post_id |-> 0,
           stored |-> {}]

\* store_post(content = text, mastodon_id = ...) (mastodon_client.py:127-135).
post_store_step(text, mastodon_id, failAt) ==
  LET r == store_post(db, text, mastodon_id, failAt)
  IN  /\ ps.pc = "idle"
      /\ db.post_seq < MaxPostId
      /\ db' = r.db
      /\ ps' = IF r.ok
               THEN [ps EXCEPT !.pc = "embedding", !.text = text,
                               !.mastodon_id = mastodon_id,
                               !.post_id = r.post_id,
                               !.stored = @ \cup {mastodon_id}]
               ELSE [ps EXCEPT !.pc = "idle"]
      /\ UNCHANGED <<notion, kb, hist, ev, obs, ck, rq, cc, wf>>

\* generate_embeddings(text)[0], serialize_embedding and
\* store_post_embedding(post_id, ...) (mastodon_client.py:138-140).
post_embedding_step(failAt) ==
  LET embedding_bytes == serialize_embedding(generate_embeddings(<<ps.text>>)[1])
      r == store_post_embedding(db, ps.post_id, embedding_bytes, failAt)
  IN  /\ ps.pc = "embedding"
      /\ db' = r.db
      /\ ps' = [ps EXCEPT !.pc = "idle"]
      /\ UNCHANGED <<notion, kb, hist, ev, obs, ck, rq, cc, wf>>

PostNext ==
  \/ \E text \in PostTexts, mastodon_id \in MastodonIds, failAt \in 0..1 :
       post_store_step(text, mastodon_id, failAt)
  \/ \E failAt \in 0..1 : post_embedding_step(failAt)

PostSpec == PostInit /\ [][PostNext]_vars

\* C26: between two post stores, every mastodon id stored so far has exactly
\* one row in posts, every row of post_embeddings has the id of a row of
\* posts, and no post has two embeddings.
C26_PostsAndEmbeddingsConsistent ==
  ps.pc = "idle" =>
    /\ \A m \in ps.stored :
         Cardinality({r \in db.posts : r.mastodon_id = m}) = 1
    /\ PostEmbeddingIds(db) \subseteq PostIds(db)
    /\ Cardinality(db.post_embeddings) = Cardinality(PostEmbeddingIds(db))

\* C27: every slice whose tentative end start + chunk_size lies before the
\* end of the text ends right after the last sentence terminator of the
\* last SentenceLookback characters before the tentative end, if there is
\* one; if there is none, right after the last whitespace of the last
\* WordLookback characters, if there is one; and at the tentative end
\* otherwise.  The windows are taken as the loops of the code take them
\* (the first index of a window is not looked at).
C27_BoundaryRule ==
  ck.pc # "none" =>
    \A n \in 1..Len(ck.slices) :
      LET s == ck.slices[n]
          end0 == s.start + ck.chunk_size
          sent == {i \in (Max(s.start, end0 - SentenceLookback) + 1)..(end0 - 1) :
                     At(ck.text, i) \in {".", "!", "?", "\n"}}
          word == {i \in (Max(s.start, end0 - WordLookback) + 1)..(end0 - 1) :
                     At(ck.text, i) \in {" ", "\t", "\n"}}
      IN  end0 < Len(ck.text) =>
            s.end = IF sent # {} THEN SetMax(sent) + 1
                    ELSE IF word # {} THEN SetMax(word) + 1
                    ELSE end0

\* C28: when a call has returned, the lexical score of every row the
\* lexical search fetched is between 0 and 1; when the fetched rows have two
\* ranks or more, the row of the best (lowest) rank has 1, the row of the
\* worst rank has 0 and every row lies on the line between them; when they
\* all have one rank, a single row included, every row has 1.  A result
\* carries that score as its bm25_score.
C28_LexicalScoreNormalised ==
  rq.pc = "returned" =>
    LET lexical == DOMAIN rq.bm25_results
        ranks == {rq.rank[id] : id \in lexical}
        best == CHOOSE x \in ranks : \A y \in ranks : x <= y
        worst == SetMax(ranks)
    IN  /\ \A id \in lexical :
             LET score == rq.bm25_results[id]
             IN  /\ ~FLess(score, Frac(0, 1))
                 /\ ~FLess(Frac(1, 1), score)
                 /\ IF Cardinality(ranks) >= 2
                    THEN /\ rq.rank[id] = best => FEq(score, Frac(1, 1))
                         /\ rq.rank[id] = worst => FEq(score, Frac(0, 1))
                         /\ FEq(score, Frac(worst - rq.rank[id], worst - best))
                    ELSE FEq(score, Frac(1, 1))
        /\ \A n \in 1..Len(rq.results) :
             rq.results[n].chunk_id \in lexical =>
               FEq(rq.results[n].bm25_score,
                   rq.bm25_results[rq.results[n].chunk_id])

\* A call returned whose lexical search fetched three rows of three ranks:
\* one scores 1, one 0 and one in between, and a result carries a lexical
\* score strictly between 0 and 1.
C28_Witness ==
  /\ rq.pc = "returned"
  /\ Cardinality(DOMAIN rq.bm25_results) = 3
  /\ Cardinality({rq.rank[id] : id \in DOMAIN rq.bm25_results}) = 3
  /\ \E n \in 1..Len(rq.results) :
       /\ FLess(Frac(0, 1), rq.results[n].bm25_score)
       /\ FLess(rq.results[n].bm25_score, Frac(1, 1))

\* C29: the semantic_score of every result of a call that has returned is
\* the cosine similarity of its chunk or post rescaled to (sim + 1) / 2 (0
\* for a chunk without an embedding), so it lies between 0 and 1; and when
\* alpha is between 0 and 1, so does the score of the result.
C29_SemanticScoreRescaled ==
  rq.pc = "returned" =>
    \A n \in 1..Len(rq.results) :
      LET r == rq.results[n]
      IN  /\ r.chunk_id \in DOMAIN rq.sim =>
               FEq(r.semantic_score, Frac(rq.sim[r.chunk_id] + 1, 2))
          /\ ~FLess(r.semantic_score, Frac(0, 1))
          /\ ~FLess(Frac(1, 1), r.semantic_score)
          /\ (~FLess(rq.alpha, Frac(0, 1)) /\ ~FLess(Frac(1, 1), rq.alpha)) =>
               /\ ~FLess(r.score, Frac(0, 1))
               /\ ~FLess(Frac(1, 1), r.score)

(***************************************************************************)
(* main.py and telegram_client.py: one run of main.  wf holds where the    *)
(* run is (pc), its arguments, the fields of the TelegramHITL object       *)
(* (decision_result, waiting_for_reason, decision_event), what             *)
(* wait_for_approval returned, and what happened on the way: the buttons   *)
(* clicked, a timeout, an error in the workflow, an upload, a post.        *)
(* The handlers run one at a time, each to its end, while                  *)
(* send_post_for_approval waits for decision_event.                        *)
(***************************************************************************)
ApprovalInit ==
  /\ Parked
  /\ db = EmptyDb
  /\ ck = NoCk
  /\ rq = NoRq
  /\ ps = NoPs
  /\ cc = NoCc
  /\ \E require_approval \in BOOLEAN, image_url \in BOOLEAN :
       wf = [pc |-> IF require_approval THEN "send" ELSE "upload",
             require_approval |-> require_approval, image_url |-> image_url,
             collect_feedback |-> TRUE,
             decision_result |-> "None", waiting_for_reason |-> FALSE,
             decision_event |-> FALSE, returned |-> "nothing",
             approve_clicked |-> FALSE, reject_clicked |-> FALSE,
             timed_out |-> FALSE, error |-> FALSE,
             uploaded |-> FALSE, posted |-> FALSE]

\* wait_for_approval up to the handlers being set (telegram_client.py:272 and
\* :66-125): the constructor, send_photo or send_message and the building of
\* the application are outside every try, so an exception of theirs leaves
\* wait_for_approval and main.
send_for_approval(ok) ==
  /\ wf.pc = "send"
  /\ wf' = IF ok
           THEN [wf EXCEPT !.pc = "start_polling"]
           ELSE [wf EXCEPT !.pc = "raised", !.error = TRUE]
  /\ UNCHANGED <<notion, db, kb, hist, ev, obs, ck, rq, ps, cc>>

\* initialize, start and start_polling (telegram_client.py:128-131), and the
\* except Exception that takes their error (:140-147).
start_polling(ok) ==
  /\ wf.pc = "start_polling"
  /\ wf' = IF ok
           THEN [wf EXCEPT !.pc = "waiting"]
           ELSE [wf EXCEPT !.pc = "cleanup", !.error = TRUE,
                           !.decision_result = "reject",
                           !.decision_event = TRUE]
  /\ UNCHANGED <<notion, db, kb, hist, ev, obs, ck, rq, ps, cc>>

\* _handle_button_click for a click on data (telegram_client.py:163-231).
\* answered: query.answer() returned; shown: the edit of the message, or the
\* message sent in its place, went through.  An exception of the handler is
\* caught and makes the decision a reject.
_handle_button_click(data, answered, shown) ==
  LET clicked == [wf EXCEPT !.approve_clicked = @ \/ data = "approve",
                            !.reject_clicked = @ \/ data = "reject"]
      decided == [clicked EXCEPT !.decision_result = data]
  IN  /\ wf.pc = "waiting"
      /\ ~wf.decision_event
      /\ wf' = IF ~answered
               THEN [clicked EXCEPT !.error = TRUE,
                                    !.decision_result = "reject",
                                    !.decision_event = TRUE]
               ELSE IF ~shown
               THEN [decided EXCEPT !.error = TRUE,
                                    !.decision_result = "reject",
                                    !.decision_event = TRUE]
               ELSE IF data = "approve"
               THEN [decided EXCEPT !.decision_event = TRUE]
               ELSE IF wf.collect_feedback
               THEN [decided EXCEPT !.waiting_for_reason = TRUE]
               ELSE [decided EXCEPT !.decision_event = TRUE]
      /\ UNCHANGED <<notion, db, kb, hist, ev, obs, ck, rq, ps, cc>>

\* _handle_text_feedback for a text message (telegram_client.py:233-243);
\* replied: reply_text returned, without it decision_event is not set.
_handle_text_feedback(replied) ==
  /\ wf.pc = "waiting"
  /\ ~wf.decision_event
  /\ wf' = IF ~wf.waiting_for_reason
           THEN wf
           ELSE [wf EXCEPT !.waiting_for_reason = FALSE,
                           !.decision_event = replied]
  /\ UNCHANGED <<notion, db, kb, hist, ev, obs, ck, rq, ps, cc>>

\* asyncio.wait_for gives up after timeout seconds (telegram_client.py:136-139).
approval_timeout ==
  /\ wf.pc = "waiting"
  /\ ~wf.decision_event
  /\ wf' = [wf EXCEPT !.pc = "cleanup", !.timed_out = TRUE,
                      !.decision_result = "reject"]
  /\ UNCHANGED <<notion, db, kb, hist, ev, obs, ck, rq, ps, cc>>

\* decision_event.wait() returns (telegram_client.py:135).
approval_decided ==
  /\ wf.pc = "waiting"
  /\ wf.decision_event
  /\ wf' = [wf EXCEPT !.pc = "cleanup"]
  /\ UNCHANGED <<notion, db, kb, hist, ev, obs, ck, rq, ps, cc>>

\* The cleanup and the return of send_post_for_approval
\* (telegram_client.py:148-161), and main's test of the decision
\* (main.py:59-66).
approval_return ==
  LET decision == IF wf.decision_result = "None"
                  THEN "reject" ELSE wf.decision_result
  IN  /\ wf.pc = "cleanup"
      /\ wf' = [wf EXCEPT !.returned = decision,
                          !.pc = IF decision = "reject"
                                 THEN "done" ELSE "upload"]
      /\ UNCHANGED <<notion, db, kb, hist, ev, obs, ck, rq, ps, cc>>

\* upload_media when there is an image; its exception is caught and the
\* post goes out without the image (main.py:68-77).
upload_media_step(ok) ==
  /\ wf.pc = "upload"
  /\ wf' = [wf EXCEPT !.pc = "post", !.uploaded = wf.image_url /\ ok]
  /\ UNCHANGED <<notion, db, kb, hist, ev, obs, ck, rq, ps, cc>>

\* post_status(post, media_ids) (main.py:80); its exception leaves main.
post_status_step(ok) ==
  /\ wf.pc = "post"
  /\ wf' = IF ok
           THEN [wf EXCEPT !.pc = "done", !.posted = TRUE]
           ELSE [wf EXCEPT !.pc = "post_raised"]
  /\ UNCHANGED <<notion, db, kb, hist, ev, obs, ck, rq, ps, cc>>

ApprovalNext ==
  \/ \E ok \in BOOLEAN : send_for_approval(ok)
  \/ \E ok \in BOOLEAN : start_polling(ok)
  \/ \E data \in {"approve", "reject"}, answered \in BOOLEAN, shown \in BOOLEAN :
       _handle_button_click(data, answered, shown)
  \/ \E replied \in BOOLEAN : _handle_text_feedback(replied)
  \/ approval_timeout
  \/ approval_decided
  \/ approval_return
  \/ \E ok \in BOOLEAN : upload_media_step(ok)
  \/ \E ok \in BOOLEAN : post_status_step(ok)

ApprovalSpec == ApprovalInit /\ [][ApprovalNext]_vars

\* The approval workflow of the run is over: it returned, or it raised.
WorkflowOver == wf.pc \in {"raised", "done", "upload", "post", "post_raised"}

\* C30: in a run of main with require_approval, an image is uploaded or a
\* post published only when wait_for_approval returned 'approve'; when the
\* workflow is over it has returned 'approve' or 'reject'; and when a reject
\* button was clicked, the wait timed out or the workflow met an error, it
\* returned 'reject' and nothing is uploaded or posted.
C30_PublishOnlyAfterApprove ==
  (wf.pc # "none" /\ wf.require_approval) =>
    /\ (wf.uploaded \/ wf.posted) => wf.returned = "approve"
    /\ WorkflowOver => wf.returned \in {"approve", "reject"}
    /\ (WorkflowOver /\ (wf.reject_clicked \/ wf.timed_out \/ wf.error)) =>
         /\ wf.returned = "reject"
         /\ ~wf.uploaded
         /\ ~wf.posted

====
